---- MODULE Spec2Model ----
(***************************************************************************)
(* Gallery store of replicate-flux-lora (src/util/gallery_database.py):    *)
(* the SQLite tables generations / generation_outputs, the files on disk   *)
(* they refer to, and the operations of GalleryDatabase.                   *)
(*                                                                         *)
(* Text values (model strings, serialized JSON, LIKE patterns) are         *)
(* sequences of tokens; a path is the sequence of its components, the      *)
(* first component "/" marking an absolute path.  None / SQL NULL is the   *)
(* empty sequence for text and path columns.                               *)
(***************************************************************************)
EXTENDS Integers, Sequences, FiniteSets, TLC

\* ------------------------------------------------------------------ bounds
MaxClock == 2       \* number of save_generation calls in one behaviour

\* ------------------------------------------------------------ input domains
GenIds == {"gen_1", "gen_2"}

NULL == << >>

Cwd == <<"/", "cwd">>
RelRoot == <<"replicate_outputs">>
AbsRoot == Cwd \o RelRoot
\* the output_dir strings a caller passes: "./replicate_outputs" as
\* _get_output_dir returns it, its resolved form, and a directory that is absent
RawRelRoot == <<".", "replicate_outputs">>
MissingRoot == <<"no_such_dir">>
OutputDirs == {RawRelRoot, AbsRoot, MissingRoot}

\* files below the output root, as (subdirectory, file name)
ImageFile == <<"images", "a.png">>
TextFile == <<"text", "b.txt">>
ThumbFile == <<"thumbnails", "thumb_a.jpg">>
OutputFiles == {ImageFile, TextFile}
AllFiles == {AbsRoot \o f : f \in OutputFiles \cup {ThumbFile}}

\* model string, category and input parameters of a save_generation call;
\* each generation id is saved with the model it was generated on
AcmeModel == <<"acme", "/", "model">>
OtherModel == <<"other", "/", "net">>
PlainParams == [prompt |-> <<"a", "cat">>]
AcmeParams == [prompt |-> <<"acme", "logo">>]
SaveInput(generation_id) ==
    IF generation_id = "gen_1"
    THEN [model_string |-> AcmeModel, model_category |-> "image-generation", input_params |-> PlainParams]
    ELSE [model_string |-> OtherModel, model_category |-> "text-generation", input_params |-> AcmeParams]
Queries == {<<"acme">>, <<"net">>, <<"cat">>, <<"zzz">>}

\* ------------------------------------------------------------------ paths
IsAbsolute(p) == Len(p) > 0 /\ p[1] = "/"

\* Path(s): pathlib drops "." components and otherwise keeps the components
\* as written; two Paths are equal iff their components are (nothing is
\* resolved against the cwd)
NotDot(c) == c # "."
PathOf(s) == SelectSeq(s, NotDot)

\* the file a path string names, relative paths being taken from the cwd
Resolve(p) == IF IsAbsolute(p) THEN PathOf(p) ELSE Cwd \o PathOf(p)

IsPrefix(d, p) == Len(d) <= Len(p) /\ SubSeq(p, 1, Len(d)) = d

\* the directories OutputHandler.__init__ creates
Directories == {AbsRoot} \cup {AbsRoot \o <<d>> : d \in {"images", "text", "thumbnails"}}

\* os.path.exists / Path.exists
PathExists(fs, p) == Resolve(p) \in fs \cup Directories

\* Path(output_dir).rglob("*") restricted to is_file(): every file below the
\* directory, named by output_dir joined with the file's relative part
RglobFiles(fs, output_path) ==
    { output_path \o SubSeq(f, Len(Resolve(output_path)) + 1, Len(f)) :
        f \in {g \in fs : IsPrefix(Resolve(output_path), g)} }

\* ------------------------------------------------------------ ProcessedOutput
OutputTypeOf(file) == IF file = ImageFile THEN "image" ELSE "text"
FileSizeOf(file) == IF file = ImageFile THEN 1 ELSE 11

ProcessedOutput(dir, file) ==
    [type |-> OutputTypeOf(file), file_path |-> dir \o file, file_size |-> FileSizeOf(file)]

\* OutputHandler.output_dir: Path("./replicate_outputs"); the paths the
\* handler hands out are str() of paths below it
HandlerDir == PathOf(RawRelRoot)

\* the outputs lists of a save_generation call: gen_1 is an image generation
\* that may carry a text output, gen_2 a text generation that may produce
\* nothing
OutputLists(generation_id) ==
    LET image == ProcessedOutput(HandlerDir, ImageFile)
        text == ProcessedOutput(HandlerDir, TextFile)
    IN  IF generation_id = "gen_1"
        THEN {<<image>>, <<image, text>>, <<text, image>>}
        ELSE {<< >>, <<text>>}

\* thumbnail_path: None, or the thumbnail generated for the first image output
Thumbnails(outputs) ==
    {NULL} \cup {HandlerDir \o ThumbFile : i \in {j \in DOMAIN outputs : outputs[j].type = "image"}}

\* ------------------------------------------------------------------- JSON
json_dumps(d) == <<"{", "prompt", ":">> \o d.prompt \o <<"}">>
json_loads(t) == [prompt |-> SubSeq(t, 4, Len(t) - 1)]

\* SQL: text LIKE '%q%'
Like(text, q) ==
    \E i \in 1..(Len(text) + 1) :
        i + Len(q) - 1 <= Len(text) /\ SubSeq(text, i, i + Len(q) - 1) = q

\* ----------------------------------------------------------------- schema
GenerationsColumns ==
    {"id", "model_string", "model_category", "input_params", "created_at", "thumbnail_path", "favorite"}
GenerationRecordFields ==
    {"id", "model_string", "model_category", "input_params", "created_at", "thumbnail_path", "favorite", "outputs"}

\* sqlite3.connect() leaves PRAGMA foreign_keys at SQLite's default, OFF
PragmaForeignKeys == FALSE

VARIABLES
    generations,        \* table generations: set of rows, id the primary key
    generation_outputs, \* table generation_outputs: set of rows
    sqlite_sequence,    \* last AUTOINCREMENT id of generation_outputs
    now,                \* datetime.now()
    disk,               \* the files that exist, as absolute paths
    last,               \* the last call: operation, arguments and result
    reader,             \* a get_generations call in progress on its own connection
    provider,           \* ModelSchemaService: the OpenAPI document the provider holds
    client,             \* ModelSchemaService.client is set (an API key is configured)
    schema_cache,       \* ModelSchemaService._schema_cache
    svc,                \* ModelSchemaService: the last call, its arguments and result
    handled,            \* OutputHandler: the last process_prediction_output call
    flow                \* UniversalReplicateGUI: the _generate_output coroutine and its flag

galleryVars == <<generations, generation_outputs, sqlite_sequence, now, disk, last>>
schemaVars == <<provider, client, schema_cache, svc>>
vars == <<generations, generation_outputs, sqlite_sequence, now, disk, last, reader,
          provider, client, schema_cache, svc, handled, flow>>

\* the variables outside the gallery store, outside the gallery store and its
\* reader, outside the schema service, outside the output handler, and outside
\* the gallery store and the generator
nonGalleryVars == <<reader, schemaVars, handled, flow>>
nonReaderVars == <<schemaVars, handled, flow>>
nonSchemaVars == <<galleryVars, reader, handled, flow>>
nonHandlerVars == <<galleryVars, reader, schemaVars, flow>>
nonGeneratorVars == <<reader, schemaVars, handled>>

\* the database as one value
Db(g, o, s) == [generations |-> g, generation_outputs |-> o, sqlite_sequence |-> s]
CurrentDb == Db(generations, generation_outputs, sqlite_sequence)

NoCall == [op |-> "init", id |-> "", ok |-> TRUE, removed_records |-> 0, removed_files |-> 0]

\* no get_generations call is running
NoReader == [pc |-> "idle", rows |-> << >>, generations |-> << >>, seen |-> {}]

GalleryInit ==
    /\ generations = {}
    /\ generation_outputs = {}
    /\ sqlite_sequence = 0
    /\ now = 0
    /\ disk = AllFiles
    /\ last = NoCall

\* no ModelSchemaService has been constructed
NoService ==
    /\ provider = << >>
    /\ client = FALSE
    /\ schema_cache = << >>
    /\ svc = << >>

\* process_prediction_output has not been called
NoOutput ==
    [op |-> "init", output |-> << >>, generation_id |-> "", fails |-> {},
     raised |-> FALSE, outputs |-> << >>]

\* UniversalReplicateGUI.__init__: no generation has been requested
NoFlow ==
    [pc |-> "idle", generation_in_progress |-> FALSE, started |-> 0, finished |-> 0,
     issued |-> {}, last_generation_id |-> "", outputs |-> << >>, thumbnail_path |-> NULL,
     notify |-> ""]

Init ==
    /\ GalleryInit
    /\ reader = NoReader
    /\ NoService
    /\ handled = NoOutput
    /\ flow = NoFlow

\* ------------------------------------------------------------ SQL helpers
RECURSIVE OrderBy(_, _)
\* the rows of S as a sequence, ascending by the column col (values distinct)
OrderBy(S, col) ==
    IF S = {} THEN << >>
    ELSE LET first == CHOOSE r \in S : \A q \in S : r[col] <= q[col]
         IN  <<first>> \o OrderBy(S \ {first}, col)

Reverse(s) == [i \in 1..Len(s) |-> s[Len(s) + 1 - i]]

\* DELETE FROM generations WHERE id = ?, with the ON DELETE CASCADE of
\* generation_outputs.generation_id acting only when foreign keys are enforced
DeleteGenerationRow(db, generation_id) ==
    [db EXCEPT
        !.generations = {g \in @ : g.id # generation_id},
        !.generation_outputs =
            IF PragmaForeignKeys /\ (\E g \in db.generations : g.id = generation_id)
            THEN {r \in @ : r.generation_id # generation_id}
            ELSE @]

\* INSERT OR REPLACE INTO generations (id, model_string, model_category,
\* input_params, thumbnail_path, created_at): the row with this primary key is
\* deleted and a new one inserted, favorite taking its DEFAULT FALSE
UpsertGeneration(db, generation_id, input, thumbnail_path, created_at) ==
    LET removed == DeleteGenerationRow(db, generation_id)
        row == [id |-> generation_id,
                model_string |-> input.model_string,
                model_category |-> input.model_category,
                input_params |-> json_dumps(input.input_params),
                created_at |-> created_at,
                thumbnail_path |-> thumbnail_path,
                favorite |-> FALSE]
    IN  [removed EXCEPT !.generations = @ \cup {row}]

\* save_generation without its DELETE of the earlier output rows
DeleteOutputsOfNothing(db, generation_id) == db

\* DELETE FROM generation_outputs WHERE generation_id = ?
DeleteOutputsOf(db, generation_id) ==
    [db EXCEPT !.generation_outputs = {r \in @ : r.generation_id # generation_id}]

\* INSERT INTO generation_outputs (...): the row takes the next AUTOINCREMENT id
InsertOutput(db, generation_id, output) ==
    [db EXCEPT
        !.sqlite_sequence = @ + 1,
        !.generation_outputs = @ \cup
            {[id |-> db.sqlite_sequence + 1,
              generation_id |-> generation_id,
              output_type |-> output.type,
              file_path |-> output.file_path,
              file_size |-> output.file_size]}]

RECURSIVE InsertOutputs(_, _, _, _)
\* the first n iterations of the loop "for output in outputs"
InsertOutputs(db, generation_id, outputs, n) ==
    IF n = 0 THEN db
    ELSE InsertOutput(InsertOutputs(db, generation_id, outputs, n - 1), generation_id, outputs[n])

\* _get_connection without the rollback: what was written before the
\* exception stays
GetConnectionExitKeepsWork(committed, work, raised) == IF raised THEN work ELSE committed

\* _get_connection: what the database holds when the with-block is left.
\* committed is the state at the last conn.commit() (the state at entry when
\* there was none); an exception rolls the open transaction back, and close()
\* discards uncommitted work as well.
GetConnectionExit(committed, work, raised) == committed

\* --------------------------------------------------------- save_generation
\* the open transaction of save_generation when statement number `reached`
\* is about to run: 1 the INSERT OR REPLACE, 1 + k the INSERT of outputs[k],
\* Len(outputs) + 2 the commit
SaveWork(db, generation_id, input, outputs, thumbnail_path, created_at, reached) ==
    IF reached <= 1 THEN db
    ELSE InsertOutputs(
            DeleteOutputsOf(UpsertGeneration(db, generation_id, input, thumbnail_path, created_at),
                            generation_id),
            generation_id, outputs, reached - 2)

\* raise_at = 0: no statement raises; otherwise the number of the statement
\* that raises (json.dumps or output.type.value failing, a constraint, a
\* locked or full database).  datetime.now() is later at every call; a value
\* that is rolled back is seen by nobody, so the clock of the model advances
\* with the values that are stored.
save_generation(generation_id, input, outputs, thumbnail_path, raise_at) ==
    /\ now < MaxClock
    /\ now' = IF raise_at = 0 THEN now + 1 ELSE now
    /\ LET pre == CurrentDb
           raised == raise_at # 0
           reached == IF raised THEN raise_at ELSE Len(outputs) + 2
           work == SaveWork(pre, generation_id, input, outputs, thumbnail_path, now + 1, reached)
           post == GetConnectionExit(IF raised THEN pre ELSE work, work, raised)
       IN  /\ generations' = post.generations
           /\ generation_outputs' = post.generation_outputs
           /\ sqlite_sequence' = post.sqlite_sequence
           /\ last' = [NoCall EXCEPT !.op = "save_generation", !.id = generation_id,
                                     !.ok = ~raised]
    /\ UNCHANGED disk

\* ------------------------------------------------------- delete_generation
OutputPathsOf(db, generation_id) ==
    {r.file_path : r \in {o \in db.generation_outputs : o.generation_id = generation_id}}

ThumbnailPathsOf(db, generation_id) ==
    {g.thumbnail_path : g \in {h \in db.generations : h.id = generation_id}}

\* the files delete_generation tries to remove after its commit
DeleteTargets(db, fs, generation_id) ==
    {Resolve(p) : p \in {q \in OutputPathsOf(db, generation_id) \cup ThumbnailPathsOf(db, generation_id) :
                            q # NULL /\ PathExists(fs, q)}}

\* delete_generation with the file clean-up placed before the commit
RemovedBeforeCommit(raised, targets) == targets

\* the files the clean-up loop reaches: it follows conn.commit(), so none when
\* a statement up to the commit raises
RemovedAfterCommit(raised, targets) == IF raised THEN {} ELSE targets

\* raised: a statement up to the commit raises; undeletable: the files whose
\* os.remove raises
delete_generation(generation_id, raised, undeletable) ==
    /\ LET pre == CurrentDb
           work == DeleteGenerationRow(pre, generation_id)
           post == GetConnectionExit(IF raised THEN pre ELSE work, work, raised)
       IN  /\ generations' = post.generations
           /\ generation_outputs' = post.generation_outputs
           /\ sqlite_sequence' = post.sqlite_sequence
           /\ disk' = disk \ RemovedAfterCommit(raised, DeleteTargets(pre, disk, generation_id) \ undeletable)
           /\ last' = [NoCall EXCEPT !.op = "delete_generation", !.id = generation_id, !.ok = ~raised]
    /\ UNCHANGED now

\* --------------------------------------------------------- toggle_favorite
\* UPDATE generations SET favorite = 1 WHERE id = ?
SetFavoriteRow(db, generation_id) ==
    [db EXCEPT !.generations =
        {IF g.id = generation_id THEN [g EXCEPT !.favorite = TRUE] ELSE g : g \in @}]

\* UPDATE generations SET favorite = NOT favorite WHERE id = ?
ToggleFavoriteRow(db, generation_id) ==
    [db EXCEPT !.generations =
        {IF g.id = generation_id THEN [g EXCEPT !.favorite = ~g.favorite] ELSE g : g \in @}]

toggle_favorite(generation_id, raised) ==
    /\ LET pre == CurrentDb
           work == ToggleFavoriteRow(pre, generation_id)
           post == GetConnectionExit(IF raised THEN pre ELSE work, work, raised)
       IN  /\ generations' = post.generations
           /\ generation_outputs' = post.generation_outputs
           /\ sqlite_sequence' = post.sqlite_sequence
           /\ last' = [NoCall EXCEPT !.op = "toggle_favorite", !.id = generation_id, !.ok = ~raised]
    /\ UNCHANGED <<now, disk>>

\* ---------------------------------------------------- sync_with_filesystem
\* SELECT ... FROM generation_outputs go JOIN generations g ON go.generation_id = g.id
JoinedRows(db) ==
    {j \in [output : db.generation_outputs, generation : db.generations] :
        j.output.generation_id = j.generation.id}

MissingOutputs(db, fs) ==
    {j.output.id : j \in {k \in JoinedRows(db) :
        k.output.file_path # NULL /\ ~PathExists(fs, k.output.file_path)}}

MissingThumbnails(db, fs) ==
    {j.generation.id : j \in {k \in JoinedRows(db) :
        k.generation.thumbnail_path # NULL /\ ~PathExists(fs, k.generation.thumbnail_path)}}

\* the three row statements of sync_with_filesystem, in the order of the code
SyncRows(db, fs) ==
    LET outputsLeft == {o \in db.generation_outputs : o.id \notin MissingOutputs(db, fs)}
        cleared == {IF g.id \in MissingThumbnails(db, fs)
                    THEN [g EXCEPT !.thumbnail_path = NULL] ELSE g : g \in db.generations}
    IN  [db EXCEPT
            !.generation_outputs = outputsLeft,
            !.generations = {g \in cleared : g.id \in {o.generation_id : o \in outputsLeft}}]

\* db_files: the Path of every file_path and thumbnail_path in the database
DbFiles(db) ==
    {PathOf(p) : p \in {q \in {o.file_path : o \in db.generation_outputs}
                              \cup {g.thumbnail_path : g \in db.generations} : q # NULL}}

\* the files of rglob that the orphan pass tries to unlink
OrphanFiles(db, fs, output_dir) ==
    IF PathExists(fs, PathOf(output_dir))
    THEN {f \in RglobFiles(fs, PathOf(output_dir)) : f \notin DbFiles(db)}
    ELSE {}

\* the orphan pass with db_files read before the row statements have run
SyncTargetsBeforeRows(db, fs, output_dir, raise_at) ==
    IF raise_at = "select" THEN {}
    ELSE {Resolve(f) : f \in OrphanFiles(db, fs, output_dir)}

\* the files the call tries to unlink; raise_at: "none", "select" (the first
\* statement raises) or "commit" (the commit raises, after the orphan pass)
SyncTargets(db, fs, output_dir, raise_at) ==
    IF raise_at = "select" THEN {}
    ELSE {Resolve(f) : f \in OrphanFiles(SyncRows(db, fs), fs, output_dir)}

\* undeletable: the files whose unlink raises
sync_with_filesystem(output_dir, raise_at, undeletable) ==
    /\ LET pre == CurrentDb
           raised == raise_at # "none"
           work == IF raise_at = "select" THEN pre ELSE SyncRows(pre, disk)
           unlinked == SyncTargets(pre, disk, output_dir, raise_at) \ undeletable
           post == GetConnectionExit(IF raised THEN pre ELSE work, work, raised)
       IN  /\ generations' = post.generations
           /\ generation_outputs' = post.generation_outputs
           /\ sqlite_sequence' = post.sqlite_sequence
           /\ disk' = disk \ unlinked
           /\ last' = [NoCall EXCEPT
                          !.op = "sync_with_filesystem", !.ok = ~raised,
                          !.removed_records = IF raise_at = "select" THEN 0
                                              ELSE Cardinality(MissingOutputs(pre, disk)),
                          !.removed_files = Cardinality(unlinked)]
    /\ UNCHANGED now

\* ------------------------------------------------------------------ reads
\* the reads are the functions of the committed database that the code
\* computes when its SELECTs run without a database error

\* row[col]; a column that the table does not have reads as NULL here, the
\* callers below decide what its absence does
ColumnValue(row, col) == IF col \in DOMAIN row THEN row[col] ELSE NULL

\* _get_outputs_for_generation: the output rows of the generation, ORDER BY id
OutputDict(row) ==
    [id |-> row.id, type |-> row.output_type, file_path |-> row.file_path, file_size |-> row.file_size]

GetOutputsForGeneration(db, generation_id) ==
    LET rows == OrderBy({o \in db.generation_outputs : o.generation_id = generation_id}, "id")
    IN  [i \in 1..Len(rows) |-> OutputDict(rows[i])]

\* GenerationRecord(...) as get_generations and search_generations build it
GenerationRecord(db, row) ==
    [id |-> row.id,
     model_string |-> row.model_string,
     model_category |-> IF row.model_category = "" THEN "unknown" ELSE row.model_category,
     input_params |-> json_loads(row.input_params),
     created_at |-> row.created_at,
     thumbnail_path |-> row.thumbnail_path,
     favorite |-> row.favorite,
     outputs |-> GetOutputsForGeneration(db, row.id)]

\* ORDER BY g.created_at <sort_order> LIMIT ? OFFSET ?
OrderLimit(rows, sort_order, limit, offset) ==
    LET ascending == OrderBy(rows, "created_at")
        sorted == IF sort_order = "DESC" THEN Reverse(ascending) ELSE ascending
        upto == IF offset + limit < Len(sorted) THEN offset + limit ELSE Len(sorted)
    IN  SubSeq(sorted, offset + 1, upto)

\* get_generations with sort_by = "created_at"; filter_model and
\* filter_category empty mean no filter
get_generations(db, limit, offset, filter_model, filter_category, favorites_only, sort_order) ==
    LET selected == {g \in db.generations :
                        /\ filter_model = NULL \/ Like(g.model_string, filter_model)
                        /\ filter_category = "" \/ g.model_category = filter_category
                        /\ ~favorites_only \/ g.favorite}
        rows == OrderLimit(selected, sort_order, limit, offset)
    IN  [i \in 1..Len(rows) |-> GenerationRecord(db, rows[i])]

\* the columns get_generation_by_id reads from the row, which are also the
\* keyword arguments it passes to GenerationRecord besides outputs
ByIdColumns ==
    {"id", "model_string", "model_category", "input_params", "created_at", "thumbnail_path",
     "rating", "notes", "favorite"}

\* get_generation_by_id: << >> is None, <<record>> a record.  row['rating']
\* on a row without that column and GenerationRecord(rating=...) on a class
\* without that field raise, and the except clause returns None.
get_generation_by_id(db, generation_id) ==
    LET rows == {g \in db.generations : g.id = generation_id}
    IN  IF rows = {} THEN << >>
        ELSE IF ByIdColumns \subseteq GenerationsColumns /\ ByIdColumns \subseteq GenerationRecordFields
             THEN <<GenerationRecord(db, CHOOSE g \in rows : TRUE)>>
             ELSE << >>

\* the columns of generations that the WHERE clause of search_generations names
SearchColumns == {"model_string", "input_params", "notes"}

\* WHERE g.model_string LIKE ? OR g.input_params LIKE ? OR g.notes LIKE ?
SearchWhere(row, query) == \E col \in SearchColumns : Like(ColumnValue(row, col), query)

\* search_generations with a statement that has lost its WHERE clause
search_generations_unfiltered(db, query, limit) ==
    LET rows == OrderLimit(db.generations, "DESC", limit, 0)
    IN  [i \in 1..Len(rows) |-> GenerationRecord(db, rows[i])]

\* search_generations: a column the table does not have makes the statement
\* raise "no such column", and the except clause returns []
search_generations(db, query, limit) ==
    IF SearchColumns \subseteq GenerationsColumns
    THEN LET rows == OrderLimit({g \in db.generations : SearchWhere(g, query)}, "DESC", limit, 0)
         IN  [i \in 1..Len(rows) |-> GenerationRecord(db, rows[i])]
    ELSE << >>

\* ------------------------------------------------------------ specification
SaveCall ==
    \E generation_id \in GenIds :
      \E outputs \in OutputLists(generation_id) :
        \E thumbnail_path \in Thumbnails(outputs), raise_at \in 0..(Len(outputs) + 2) :
            save_generation(generation_id, SaveInput(generation_id), outputs, thumbnail_path, raise_at)

Save == SaveCall /\ UNCHANGED nonGalleryVars

Delete ==
    /\ \E generation_id \in GenIds, raised \in BOOLEAN :
        \E undeletable \in SUBSET DeleteTargets(CurrentDb, disk, generation_id) :
            delete_generation(generation_id, raised, undeletable)
    /\ UNCHANGED nonGalleryVars

Toggle ==
    /\ \E generation_id \in GenIds, raised \in BOOLEAN :
        toggle_favorite(generation_id, raised)
    /\ UNCHANGED nonGalleryVars

Sync ==
    /\ \E output_dir \in OutputDirs, raise_at \in {"none", "select", "commit"} :
        \E undeletable \in SUBSET SyncTargets(CurrentDb, disk, output_dir, raise_at) :
            sync_with_filesystem(output_dir, raise_at, undeletable)
    /\ UNCHANGED nonGalleryVars

Next == Save \/ Delete \/ Toggle \/ Sync

Spec == Init /\ [][Next]_vars

\* ------------------------------------------- get_generations as a process
\* get_generations runs on the event loop while save_generation runs in a
\* worker thread (asyncio.to_thread), each on a connection of its own.  The
\* connection is in sqlite3's default mode, in which a SELECT opens no
\* transaction: the statement that reads the generations rows has ended when
\* fetchall() returns, and every _get_outputs_for_generation is a statement of
\* its own that reads what is committed when it runs.
DefaultLimit == 50

\* rows = conn.execute(query, params).fetchall() with the default arguments
ReadGenerations ==
    /\ reader.pc \in {"idle", "returned"}
    /\ reader' = [pc |-> "outputs",
                  rows |-> OrderLimit(generations, "DESC", DefaultLimit, 0),
                  generations |-> << >>,
                  seen |-> {CurrentDb}]
    /\ UNCHANGED <<galleryVars, nonReaderVars>>

\* one iteration of "for row in rows": the outputs are read now, the other
\* fields come from the row read before
ReadOutputs ==
    /\ reader.pc = "outputs"
    /\ Len(reader.generations) < Len(reader.rows)
    /\ reader' = [reader EXCEPT !.generations =
                    Append(@, GenerationRecord(CurrentDb, reader.rows[Len(@) + 1]))]
    /\ UNCHANGED <<galleryVars, nonReaderVars>>

\* return generations, or return [] from the except clause when a statement
\* has raised
ReturnGenerations ==
    /\ reader.pc = "outputs"
    /\ \E raised \in BOOLEAN :
        /\ ~raised => Len(reader.generations) = Len(reader.rows)
        /\ reader' = [reader EXCEPT !.pc = "returned",
                                    !.generations = IF raised THEN << >> ELSE @]
    /\ UNCHANGED <<galleryVars, nonReaderVars>>

\* a save_generation of the worker thread; seen collects the committed
\* databases that existed while the get_generations call was running
ConcurrentSave ==
    /\ SaveCall
    /\ reader' = IF reader.pc = "outputs"
                 THEN [reader EXCEPT !.seen = @ \cup {CurrentDb'}]
                 ELSE reader
    /\ UNCHANGED nonReaderVars

ReaderNext == ConcurrentSave \/ ReadGenerations \/ ReadOutputs \/ ReturnGenerations

ReaderSpec == Init /\ [][ReaderNext]_vars

\* ------------------------------------------------------------------ claims
GenRows(rows, id) == {g \in rows : g.id = id}
RowsOf(id) == GenRows(generations, id)
OutputRowsOf(rows, id) == {o \in rows : o.generation_id = id}

\* the output rows of id in insertion order, as the ProcessedOutput fields
StoredOutputs(db, id) ==
    LET dicts == GetOutputsForGeneration(db, id)
    IN  [i \in 1..Len(dicts) |->
            [type |-> dicts[i].type, file_path |-> dicts[i].file_path, file_size |-> dicts[i].file_size]]

DefaultGenerations(db, limit) == get_generations(db, limit, 0, NULL, "", FALSE, "DESC")
RecordsOf(records, id) == {i \in DOMAIN records : records[i].id = id}
Limits == 1..3

SaveStep == last'.op = "save_generation"
DeleteStep == last'.op = "delete_generation"
ToggleStep == last'.op = "toggle_favorite"
SyncStep == last'.op = "sync_with_filesystem"

\* C1: save_generation is all-or-nothing.  A call that returns true leaves
\* one generation row for its id and exactly the passed outputs as the output
\* rows of that id; a call that returns false leaves both tables as they were,
\* at whichever statement it failed.
C1_SaveAllOrNothing ==
    [][SaveStep =>
        IF last'.ok
        THEN /\ Cardinality(GenRows(generations', last'.id)) = 1
             /\ \A outputs \in OutputLists(last'.id) : \A thumbnail_path \in Thumbnails(outputs) :
                    save_generation(last'.id, SaveInput(last'.id), outputs, thumbnail_path, 0)
                        => StoredOutputs(CurrentDb', last'.id) = outputs
        ELSE /\ generations' = generations
             /\ generation_outputs' = generation_outputs]_vars

\* a save_generation has failed on a store that holds rows of the same id
C1_Witness ==
    /\ last.op = "save_generation" /\ ~last.ok
    /\ RowsOf(last.id) # {}
    /\ OutputRowsOf(generation_outputs, last.id) # {}

\* C2: after a successful save_generation, get_generations (most recent
\* first, any limit >= 1) returns exactly one record for the id and its
\* outputs are the passed outputs in the passed order, also when the id had
\* output rows before.
C2_SavedRecordShowsLatestOutputs ==
    [][(SaveStep /\ last'.ok) =>
        \A limit \in Limits :
            LET records == DefaultGenerations(CurrentDb', limit)
                mine == RecordsOf(records, last'.id)
            IN  /\ Cardinality(mine) = 1
                /\ \A outputs \in OutputLists(last'.id) : \A thumbnail_path \in Thumbnails(outputs) :
                     save_generation(last'.id, SaveInput(last'.id), outputs, thumbnail_path, 0)
                        => \A i \in mine :
                            /\ Len(records[i].outputs) = Len(outputs)
                            /\ \A k \in 1..Len(outputs) :
                                /\ records[i].outputs[k].type = outputs[k].type
                                /\ records[i].outputs[k].file_path = outputs[k].file_path
                                /\ records[i].outputs[k].file_size = outputs[k].file_size]_vars

\* the second successful save of gen_1 has replaced two earlier output rows
\* by two new ones
C2_Witness ==
    /\ last.op = "save_generation" /\ last.ok /\ last.id = "gen_1"
    /\ now = 2 /\ sqlite_sequence = 4
    /\ {o.id : o \in generation_outputs} = {3, 4}
    /\ Len(DefaultGenerations(CurrentDb, 1)[1].outputs) = 2

\* C3: after delete_generation(id) returned true the store holds no
\* generations row and no generation_outputs row of that id.
C3_DeleteRemovesAllRows ==
    (last.op = "delete_generation" /\ last.ok)
        => /\ RowsOf(last.id) = {}
           /\ OutputRowsOf(generation_outputs, last.id) = {}

\* C4: get_generation_by_id returns a record with the stored outputs for every
\* id that has a generation row, and none for every other id.
C4_GetByIdReturnsStored ==
    \A id \in GenIds :
        LET found == get_generation_by_id(CurrentDb, id)
        IN  IF RowsOf(id) = {} THEN found = << >>
            ELSE /\ Len(found) = 1
                 /\ found[1].id = id
                 /\ found[1].outputs = GetOutputsForGeneration(CurrentDb, id)

\* every path a row of the database holds
StoredPaths(db) ==
    {p \in {o.file_path : o \in db.generation_outputs} \cup {g.thumbnail_path : g \in db.generations} :
        p # NULL}

\* the file is named by a file_path or a thumbnail_path of the database
Referenced(db, file) == \E p \in StoredPaths(db) : Resolve(p) = file

\* the files on disk below output_dir
FilesUnder(fs, output_dir) ==
    IF PathExists(fs, PathOf(output_dir))
    THEN {f \in fs : IsPrefix(Resolve(output_dir), f)}
    ELSE {}

\* C5: a sync_with_filesystem that commits removes every output row whose file
\* is missing, keeps every output row whose file exists together with its
\* generation, and leaves no generation without output rows.
C5_SyncRemovesExactlyMissing ==
    [][(SyncStep /\ last'.ok) =>
        /\ \A o \in generation_outputs :
            IF PathExists(disk, o.file_path)
            THEN /\ o \in generation_outputs'
                 /\ RowsOf(o.generation_id) # {} => GenRows(generations', o.generation_id) # {}
            ELSE o \notin generation_outputs'
        /\ \A g \in generations' : OutputRowsOf(generation_outputs', g.id) # {}]_vars

\* C6 as stated: after a sync_with_filesystem(output_dir) that commits, every
\* file left below output_dir is referenced by the resulting store, and
\* removed_files is the number of files the call deleted.
C6_NoUnreferencedFileRemains ==
    [][(SyncStep /\ last'.ok) =>
        \A output_dir \in OutputDirs :
            (\E undeletable \in SUBSET SyncTargets(CurrentDb, disk, output_dir, "none") :
                sync_with_filesystem(output_dir, "none", undeletable))
            => /\ \A f \in FilesUnder(disk', output_dir) : Referenced(CurrentDb', f)
               /\ last'.removed_files = Cardinality(disk \ disk')]_vars

\* C6 as amended: after a sync_with_filesystem(output_dir) that commits, every
\* file left below output_dir is referenced by the resulting store or is a
\* file whose unlink raised, and removed_files is the number of files the call
\* deleted.
C6_OnlyUndeletableOrphansRemain ==
    [][(SyncStep /\ last'.ok) =>
        \A output_dir \in OutputDirs :
            \A undeletable \in SUBSET SyncTargets(CurrentDb, disk, output_dir, "none") :
                sync_with_filesystem(output_dir, "none", undeletable)
                => /\ \A f \in FilesUnder(disk', output_dir) :
                        Referenced(CurrentDb', f) \/ f \in undeletable
                   /\ last'.removed_files = Cardinality(disk \ disk')]_vars

\* a sync has deleted an orphan file and left a referenced file on disk
C6_Witness ==
    /\ last.op = "sync_with_filesystem" /\ last.ok
    /\ last.removed_files >= 1
    /\ \E f \in disk : Referenced(CurrentDb, f)

\* C7: a toggle_favorite that returns true flips the favorite flag of its
\* generation and changes nothing else, and toggling the resulting store once
\* more gives back the store from before the call.
C7_ToggleFlipsAndInverts ==
    [][(ToggleStep /\ last'.ok) =>
        /\ \A g \in generations :
            IF g.id = last'.id
            THEN [g EXCEPT !.favorite = ~g.favorite] \in generations'
            ELSE g \in generations'
        /\ Cardinality(generations') = Cardinality(generations)
        /\ generation_outputs' = generation_outputs
        /\ ToggleFavoriteRow(CurrentDb', last'.id) = CurrentDb]_vars

\* the second toggle in a row has put the flag of a stored generation back
C7_Witness ==
    /\ last.op = "toggle_favorite" /\ last.ok
    /\ \E g \in generations : g.id = last.id /\ ~g.favorite

C9_SearchReturnsEveryMatch ==
    \A query \in Queries, limit \in Limits :
        LET matching == {g \in generations : Like(g.model_string, query) \/ Like(g.input_params, query)}
            expected == OrderLimit(matching, "DESC", limit, 0)
            found == search_generations(CurrentDb, query, limit)
        IN  /\ Len(found) = Len(expected)
            /\ \A i \in DOMAIN found : found[i].id = expected[i].id

\* C10: every generation_outputs row references a generations row that exists.
C10_EveryOutputHasGeneration ==
    \A o \in generation_outputs : RowsOf(o.generation_id) # {}

\* the records get_generations returns from the database db when nothing
\* else runs
AllGenerations(db) == get_generations(db, DefaultLimit, 0, NULL, "", FALSE, "DESC")

\* C11: every record that a get_generations call returns while save_generation
\* calls run concurrently is a record of one committed database that existed
\* during the call: the generation row and the outputs of a record are those
\* of the state before a save or those of the state after it, never a mix.
C11_ReaderSeesBeforeOrAfter ==
    reader.pc = "returned" =>
        \A i \in DOMAIN reader.generations :
            \E db \in reader.seen :
                \E j \in DOMAIN AllGenerations(db) :
                    AllGenerations(db)[j] = reader.generations[i]

\* C12: the favorite flag of a generation that is in the store before and
\* after a step changes only when the step is a toggle_favorite of that id; a
\* save_generation of an id that is already stored keeps its flag.
C12_OnlyToggleChangesFavorite ==
    [][\A g \in generations : \A h \in GenRows(generations', g.id) :
            h.favorite # g.favorite => (ToggleStep /\ last'.id = g.id)]_vars

\* C13: a delete_generation whose statements and commit succeed returns true
\* and leaves no generations row and no generation_outputs row of its id, also
\* when the removal of some of its files raises.
C13_DeleteSurvivesFileFailure ==
    [][DeleteStep =>
        \A undeletable \in SUBSET DeleteTargets(CurrentDb, disk, last'.id) :
            (undeletable # {} /\ delete_generation(last'.id, FALSE, undeletable))
                => /\ last'.ok
                   /\ GenRows(generations', last'.id) = {}
                   /\ OutputRowsOf(generation_outputs', last'.id) = {}]_vars

\* ------------------------------------------------------ ModelSchemaService
\* (src/util/model_schema.py)  An OpenAPI dict is a function from its keys;
\* d.get(k, default) is DictGet.  An Optional value is << >> for None and
\* <<x>> for x.
None == << >>
DictGet(d, k, default) == IF k \in DOMAIN d THEN d[k] ELSE default

\* the identifier strings: "acme/model", "acme/model:v1", and a string
\* without "/"
VersionedModel == AcmeModel \o <<":", "v1">>
Identifiers == {AcmeModel, VersionedModel, <<"acme">>}

Contains(s, c) == \E i \in DOMAIN s : s[i] = c
\* s.split(":", 1)[0]
BeforeColon(s) ==
    IF Contains(s, ":")
    THEN SubSeq(s, 1, (CHOOSE i \in DOMAIN s : s[i] = ":" /\ \A j \in 1..(i - 1) : s[j] # ":") - 1)
    ELSE s

\* the x-order a property declares: None for a property without the key
DefaultOrder == 999
Hints == {None} \cup {<<h>> : h \in {0, 1, DefaultOrder, DefaultOrder + 1}}

\* the declaration of each property besides its x-order
PropertyDefs ==
    [prompt |-> [type |-> "string"],
     width |-> [type |-> "integer", minimum |-> 1, maximum |-> 2],
     fps |-> [type |-> "integer"],
     audio |-> [type |-> "string", format |-> "uri"],
     seed |-> [type |-> "integer"],
     steps |-> [type |-> "number", minimum |-> 1]]

\* the property names of an Input schema, in the order of the document
PropertyNames ==
    {<<"prompt", "width">>, <<"prompt", "fps">>, <<"audio", "seed">>, <<"seed", "steps">>}

PropertyDef(name, hint) ==
    IF hint = None THEN PropertyDefs[name] ELSE ("x-order" :> hint[1]) @@ PropertyDefs[name]

\* components.schemas.Input: properties as the ordered (name, definition)
\* pairs of the dict, required as the set of the listed names
InputSchema(names, hints, required) ==
    [properties |-> [i \in DOMAIN names |-> <<names[i], PropertyDef(names[i], hints[i])>>],
     required |-> required]

\* Input schemas without x-order, for every list of names and every required
\* list, and Input schemas of prompt and width with every pair of x-orders
InputSchemas ==
    {InputSchema(names, <<None, None>>, required) :
        names \in PropertyNames, required \in {{}, {"prompt"}, {"width", "seed"}}}
    \cup {InputSchema(<<"prompt", "width">>, hints, {"prompt"}) : hints \in [1..2 -> Hints]}

\* components.schemas.Output
OutputSchemas ==
    {[type |-> "array", items |-> [type |-> "string", format |-> "uri"]],
     [type |-> "array", items |-> [type |-> "string"]],
     [type |-> "string"]}

\* the model's description at the provider: None or a text
Descriptions == {None, <<<<"a", "video", "model">>>>}

\* what the provider holds for acme/model
OpenApiDocuments ==
    {d \in [Input : InputSchemas, Output : OutputSchemas, description : Descriptions] :
        \/ \A i \in DOMAIN d.Input.properties : "x-order" \notin DOMAIN d.Input.properties[i][2]
        \/ (d.Output.type = "string" /\ d.description # None)}

\* _get_parameter_type
GetParameterType(param_def) ==
    IF \/ DictGet(param_def, "format", "") \in {"uri", "binary"}
       \/ Contains(DictGet(param_def, "description", << >>), "file")
    THEN "file"
    ELSE IF DictGet(param_def, "type", "string") \in {"string", "number", "integer", "boolean", "array", "object"}
         THEN DictGet(param_def, "type", "string")
         ELSE "string"

Optional(d, k) == IF k \in DOMAIN d THEN <<d[k]>> ELSE None

\* ParameterDefinition(...) as _parse_input_parameters builds it
ParameterDefinition(param_name, param_def, required_fields) ==
    [name |-> param_name,
     type |-> GetParameterType(param_def),
     required |-> param_name \in required_fields,
     minimum |-> Optional(param_def, "minimum"),
     maximum |-> Optional(param_def, "maximum"),
     x_order |-> DictGet(param_def, "x-order", DefaultOrder)]

\* key=lambda p: p.x_order or 999
SortKey(p) == IF p.x_order = 0 THEN DefaultOrder ELSE p.x_order

RECURSIVE StableSort(_)
\* list.sort(key=SortKey): ascending by key, equal keys in their former order
StableSort(ps) ==
    IF ps = << >> THEN << >>
    ELSE LET first == CHOOSE i \in DOMAIN ps :
                        \A j \in DOMAIN ps : SortKey(ps[i]) < SortKey(ps[j])
                                              \/ (SortKey(ps[i]) = SortKey(ps[j]) /\ i <= j)
             rest == [k \in 1..(Len(ps) - 1) |-> IF k < first THEN ps[k] ELSE ps[k + 1]]
         IN  <<ps[first]>> \o StableSort(rest)

\* _parse_input_parameters
ParseInputParameters(input_schema) ==
    LET properties == DictGet(input_schema, "properties", << >>)
        required_fields == DictGet(input_schema, "required", {})
    IN  StableSort([i \in DOMAIN properties |->
                        ParameterDefinition(properties[i][1], properties[i][2], required_fields)])

\* _parse_output_definition
ParseOutputDefinition(output_schema) ==
    [type |-> DictGet(output_schema, "type", "unknown"),
     items |-> Optional(output_schema, "items")]

\* _parse_openapi_schema; current_version_id is the id of the version the
\* schema was read from
ParseOpenApiSchema(model_string, openapi_schema, current_version_id) ==
    [model_string |-> model_string,
     input_parameters |-> ParseInputParameters(openapi_schema.Input),
     output_definition |-> ParseOutputDefinition(openapi_schema.Output),
     model_info |-> [name |-> <<"model">>,
                     description |-> openapi_schema.description,
                     current_version_id |-> current_version_id]]

\* a Python value of an input_params dict
PyInt(n) == [kind |-> "int", n |-> n]
PyStr == [kind |-> "str"]
PyNone == [kind |-> "none"]

\* the input_params dicts, as their (key, value) pairs in insertion order
ValueMaps ==
    {<< >>,
     <<<<"width", PyInt(0)>>>>,
     <<<<"width", PyStr>>>>,
     <<<<"prompt", PyStr>>, <<"width", PyInt(1)>>>>,
     <<<<"steps", PyNone>>, <<"bogus", PyInt(1)>>>>}

HasKey(d, k) == \E i \in DOMAIN d : d[i][1] = k
ValueAt(d, k) == d[CHOOSE i \in DOMAIN d : d[i][1] = k][2]

\* isinstance(value, int) and isinstance(value, (int, float))
IsInstanceInt(value) == value.kind \in {"int", "bool"}
IsInstanceNumber(value) == value.kind \in {"int", "bool", "float"}

Message(text, param_name) == [text |-> text, param |-> param_name]

\* the type and range checks of one parameter that is in input_params
ParamErrors(param, value) ==
    (IF param.type = "integer" /\ ~IsInstanceInt(value)
     THEN <<Message("must be an integer", param.name)>>
     ELSE IF param.type = "number" /\ ~IsInstanceNumber(value)
          THEN <<Message("must be a number", param.name)>>
          ELSE IF param.type = "boolean" /\ value.kind # "bool"
               THEN <<Message("must be a boolean", param.name)>>
               ELSE << >>)
    \o (IF param.type \in {"integer", "number"} /\ IsInstanceNumber(value)
        THEN (IF param.minimum # None /\ value.n < param.minimum[1]
              THEN <<Message("must be >=", param.name)>> ELSE << >>)
             \o (IF param.maximum # None /\ value.n > param.maximum[1]
                 THEN <<Message("must be <=", param.name)>> ELSE << >>)
        ELSE << >>)

\* value < param.minimum or value > param.maximum raises TypeError when the
\* value is not a number
ParamRaises(param, value) ==
    /\ param.type \in {"integer", "number"}
    /\ ~IsInstanceNumber(value)
    /\ param.minimum # None \/ param.maximum # None

RECURSIVE ConstraintErrors(_, _, _)
\* the first n iterations of "for param in schema.input_parameters"
ConstraintErrors(params, input_params, n) ==
    IF n = 0 THEN << >>
    ELSE ConstraintErrors(params, input_params, n - 1)
         \o (IF HasKey(input_params, params[n].name)
             THEN ParamErrors(params[n], ValueAt(input_params, params[n].name))
             ELSE << >>)

\* the body of validate_input_parameters after get_model_schema; schema is
\* None or <<schema>>.  The result is (is_valid, errors), or the exception.
ValidateAgainst(schema, input_params) ==
    IF schema = None
    THEN [raised |-> FALSE, ok |-> FALSE, errors |-> <<Message("Could not fetch model schema", "")>>]
    ELSE LET params == schema[1].input_parameters
             IsUnknown(e) == \A i \in DOMAIN params : params[i].name # e[1]
             IsMissing(q) == q.required /\ ~HasKey(input_params, q.name)
             unknown == SelectSeq(input_params, IsUnknown)
             missing == SelectSeq(params, IsMissing)
             errors ==
                [i \in DOMAIN unknown |-> Message("Unknown parameter", unknown[i][1])]
                \o [i \in DOMAIN missing |-> Message("Required parameter is missing", missing[i].name)]
                \o ConstraintErrors(params, input_params, Len(params))
         IN  IF \E i \in DOMAIN params :
                    /\ HasKey(input_params, params[i].name)
                    /\ ParamRaises(params[i], ValueAt(input_params, params[i].name))
             THEN [raised |-> TRUE, ok |-> FALSE, errors |-> << >>]
             ELSE [raised |-> FALSE, ok |-> errors = << >>, errors |-> errors]

\* word in model_name + " " + model_desc, for one of the words
AnyWord(words, text) == \E i \in DOMAIN text : text[i] \in words

\* "image" in str(items)
StrMentions(items, word) == \E k \in DOMAIN items : k = word \/ items[k] = word

\* the output test of categorize_model without its format test
IsImageArrayByMention(output_definition) ==
    /\ output_definition.type = "array"
    /\ output_definition.items # None
    /\ StrMentions(output_definition.items[1], "image")

\* output_type == "array" and (items.get("format") == "uri" or "image" in
\* str(items)), with items = output_definition.items or {}
IsImageArray(output_definition) ==
    LET items == IF output_definition.items = None THEN << >> ELSE output_definition.items[1]
    IN  /\ output_definition.type = "array"
        /\ DictGet(items, "format", "") = "uri" \/ StrMentions(items, "image")

\* the body of categorize_model after get_model_schema: the tag, or the
\* exception of None.lower()
CategorizeSchema(schema) ==
    IF schema = None THEN [raised |-> FALSE, tag |-> "unknown"]
    ELSE LET param_names == {schema[1].input_parameters[i].name : i \in DOMAIN schema[1].input_parameters}
             model_name == schema[1].model_info.name
             model_desc == schema[1].model_info.description
             text == model_name \o model_desc[1]
             Tag(t) == [raised |-> FALSE, tag |-> t]
         IN  IF IsImageArray(schema[1].output_definition)
             THEN Tag("image-generation")
             ELSE IF "prompt" \in param_names
             THEN IF param_names \cap {"image", "width", "height", "aspect_ratio"} # {}
                  THEN Tag("image-generation")
                  ELSE IF param_names \cap {"video", "fps", "duration"} # {}
                       THEN Tag("video-generation")
                       ELSE IF param_names \cap {"audio", "duration", "sample_rate"} # {}
                            THEN Tag("audio-generation")
                            ELSE Tag("text-generation")
             ELSE IF "image" \in param_names THEN Tag("image-processing")
             ELSE IF "video" \in param_names THEN Tag("video-processing")
             ELSE IF "audio" \in param_names THEN Tag("audio-processing")
             ELSE IF model_desc = None THEN [raised |-> TRUE, tag |-> ""]
             ELSE IF AnyWord({"image", "picture", "photo", "visual"}, text) THEN Tag("image-processing")
             ELSE IF AnyWord({"video", "movie", "film"}, text) THEN Tag("video-processing")
             ELSE IF AnyWord({"audio", "sound", "music", "voice"}, text) THEN Tag("audio-processing")
             ELSE IF AnyWord({"text", "language", "chat", "instruct"}, text) THEN Tag("text-generation")
             ELSE Tag("unknown")

\* the key of _schema_cache for a request, with the version hash cut off
CacheKeyUnversioned(model_string) == BeforeColon(model_string)

\* the key of _schema_cache for a request: the string as passed
CacheKey(model_string) == model_string

\* what fails at the provider during one get_model_schema: "model" is
\* models.get raising, "version" models.versions.get raising, "latest" a model
\* without latest_version, "schema" a version without openapi_schema
Failures == {{}, {"model"}, {"version"}, {"latest"}, {"version", "latest"}, {"schema"}}

\* the version with the except clause of models.versions.get lost: a version
\* that cannot be resolved ends the call in the outer except clause
ResolveVersionNoFallback(versioned, failures) ==
    IF versioned THEN (IF "version" \in failures THEN None ELSE <<"v1">>)
    ELSE IF "latest" \in failures THEN None ELSE <<"latest">>

\* the version get_model_schema reads the schema from, by its id: the version
\* of the hash, model.latest_version when that cannot be resolved or no hash
\* is given; None when there is none
ResolveVersion(versioned, failures) ==
    IF versioned /\ "version" \notin failures THEN <<"v1">>
    ELSE IF "latest" \in failures THEN None ELSE <<"latest">>

\* get_model_schema: the returned schema (None or <<schema>>), whether the
\* provider was contacted, and the cache afterwards
get_model_schema(cache, has_client, document, model_string, failures) ==
    LET miss == [schema |-> None, contacted |-> FALSE, cache |-> cache]
        failed == [miss EXCEPT !.contacted = TRUE]
        versioned == Contains(model_string, ":")
        version == ResolveVersion(versioned, failures)
        schema == ParseOpenApiSchema(model_string, document, version[1])
    IN  IF CacheKey(model_string) \in DOMAIN cache
        THEN [miss EXCEPT !.schema = <<cache[CacheKey(model_string)]>>]
        ELSE IF ~has_client THEN miss
        ELSE IF ~Contains(model_string, "/") THEN miss
        ELSE IF "model" \in failures \/ BeforeColon(model_string) # AcmeModel THEN failed
        ELSE IF version = None THEN failed
        ELSE IF "schema" \in failures THEN failed
        ELSE [schema |-> <<schema>>, contacted |-> TRUE,
              cache |-> (CacheKey(model_string) :> schema) @@ cache]

\* ModelSchemaService() on a machine with or without an API key, the
\* provider holding some document for acme/model
SchemaInit ==
    /\ provider \in OpenApiDocuments
    /\ client \in BOOLEAN
    /\ schema_cache = << >>
    /\ svc = [op |-> "init", model_string |-> << >>, input_params |-> << >>,
              schema |-> None, contacted |-> FALSE, result |-> << >>]
    /\ GalleryInit
    /\ reader = NoReader
    /\ handled = NoOutput
    /\ flow = NoFlow

\* a call of one of the three methods that start with get_model_schema
ServiceCall(op, model_string, input_params, failures) ==
    LET got == get_model_schema(schema_cache, client, provider, model_string, failures)
    IN  /\ got.contacted \/ failures = {}
        /\ schema_cache' = got.cache
        /\ svc' = [op |-> op, model_string |-> model_string, input_params |-> input_params,
                   schema |-> got.schema, contacted |-> got.contacted,
                   result |-> CASE op = "get_model_schema" -> got.schema
                                [] op = "validate_input_parameters" -> ValidateAgainst(got.schema, input_params)
                                [] op = "categorize_model" -> CategorizeSchema(got.schema)]
        /\ UNCHANGED <<provider, client, nonSchemaVars>>

GetModelSchema ==
    \E model_string \in Identifiers, failures \in Failures :
        ServiceCall("get_model_schema", model_string, << >>, failures)

ValidateInputParameters ==
    \E model_string \in Identifiers, failures \in Failures, input_params \in ValueMaps :
        ServiceCall("validate_input_parameters", model_string, input_params, failures)

CategorizeModel ==
    \E model_string \in Identifiers, failures \in Failures :
        ServiceCall("categorize_model", model_string, << >>, failures)

clear_cache ==
    /\ schema_cache' = << >>
    /\ svc' = [svc EXCEPT !.op = "clear_cache", !.model_string = << >>, !.input_params = << >>,
                          !.schema = None, !.contacted = FALSE, !.result = << >>]
    /\ UNCHANGED <<provider, client, nonSchemaVars>>

set_api_key ==
    /\ client' = TRUE
    /\ svc' = [svc EXCEPT !.op = "set_api_key", !.model_string = << >>, !.input_params = << >>,
                          !.schema = None, !.contacted = FALSE, !.result = << >>]
    /\ UNCHANGED <<provider, schema_cache, nonSchemaVars>>

SchemaNext ==
    GetModelSchema \/ ValidateInputParameters \/ CategorizeModel \/ clear_cache \/ set_api_key

SchemaSpec == SchemaInit /\ [][SchemaNext]_vars

\* ------------------------------------------------ claims on the schema service
CallOps == {"get_model_schema", "validate_input_parameters", "categorize_model"}

\* C14: when validate_input_parameters has a schema, every parameter that
\* the schema marks required and that is not a key of the values map makes it
\* return ok = false with an error that names the parameter.
C14_MissingRequiredIsReported ==
    (svc.op = "validate_input_parameters" /\ svc.schema # None) =>
        \A i \in DOMAIN svc.schema[1].input_parameters :
            LET p == svc.schema[1].input_parameters[i]
            IN  (p.required /\ ~HasKey(svc.input_params, p.name)) =>
                    /\ ~svc.result.raised
                    /\ ~svc.result.ok
                    /\ \E j \in DOMAIN svc.result.errors : svc.result.errors[j].param = p.name

\* the x-order the provider's document declares for a property, and the
\* property's place in the document
DeclaredHint(name) ==
    LET props == provider.Input.properties
    IN  Optional(props[CHOOSE i \in DOMAIN props : props[i][1] = name][2], "x-order")
SourcePosition(name) ==
    CHOOSE i \in DOMAIN provider.Input.properties : provider.Input.properties[i][1] = name

\* C15: the parameter list of every translated schema is ascending by the
\* declared x-order, whatever its value; every parameter without x-order comes
\* after every parameter with one; parameters without x-order keep the order of
\* the document.
C15_ParametersOrderedByHint ==
    \A k \in DOMAIN schema_cache :
        LET params == schema_cache[k].input_parameters
        IN  \A i, j \in DOMAIN params :
                i < j =>
                    LET hi == DeclaredHint(params[i].name)
                        hj == DeclaredHint(params[j].name)
                    IN  /\ (hi # None /\ hj # None) => hi[1] <= hj[1]
                        /\ ~(hi = None /\ hj # None)
                        /\ (hi = None /\ hj = None)
                            => SourcePosition(params[i].name) < SourcePosition(params[j].name)

\* C16: categorize_model on a schema whose output is an array with
\* uri-formatted items returns image-generation, whatever the input parameter
\* names are.
C16_UriArrayIsImageGeneration ==
    (/\ svc.op = "categorize_model"
     /\ svc.schema # None
     /\ svc.schema[1].output_definition.type = "array"
     /\ svc.schema[1].output_definition.items # None
     /\ DictGet(svc.schema[1].output_definition.items[1], "format", "") = "uri")
        => svc.result = [raised |-> FALSE, tag |-> "image-generation"]

\* categorize_model has tagged a model with prompt and fps among its inputs
\* and an array of uris as output
C16_Witness ==
    /\ svc.op = "categorize_model"
    /\ svc.schema # None
    /\ provider.Output = [type |-> "array", items |-> [type |-> "string", format |-> "uri"]]
    /\ {svc.schema[1].input_parameters[i].name : i \in DOMAIN svc.schema[1].input_parameters}
            = {"prompt", "fps"}
    /\ svc.result.tag = "image-generation"

\* C17: a call for a string that is a key of the cache returns that entry
\* without contacting the provider; a call for a string that is no key is
\* never answered from another entry; an entry is added only by a successful
\* translation of exactly its key, a failed translation adds none, and an
\* entry stays as it is until clear_cache.
C17_CacheAnswersExactString ==
    [][/\ \A k \in DOMAIN schema_cache :
            svc'.op # "clear_cache" =>
                (k \in DOMAIN schema_cache' /\ schema_cache'[k] = schema_cache[k])
       /\ svc'.op \in CallOps =>
            /\ svc'.model_string \in DOMAIN schema_cache =>
                    (~svc'.contacted /\ svc'.schema = <<schema_cache[svc'.model_string]>>)
            /\ svc'.model_string \notin DOMAIN schema_cache =>
                    (svc'.schema = None \/ svc'.contacted)
            /\ svc'.schema # None => svc'.schema[1].model_string = svc'.model_string
            /\ svc'.schema = None => DOMAIN schema_cache' = DOMAIN schema_cache
       /\ \A k \in DOMAIN schema_cache' \ DOMAIN schema_cache :
            /\ svc'.op \in CallOps
            /\ svc'.model_string = k
            /\ svc'.contacted
            /\ svc'.schema = <<schema_cache'[k]>>]_vars

\* with entries for "acme/model" and "acme/model:v1" in the cache, a call
\* for "acme/model:v1" has been answered from its own entry without contacting
\* the provider
C17_Witness ==
    /\ {AcmeModel, VersionedModel} \subseteq DOMAIN schema_cache
    /\ svc.op = "get_model_schema" /\ svc.model_string = VersionedModel
    /\ ~svc.contacted
    /\ svc.schema = <<schema_cache[VersionedModel]>>
    /\ schema_cache[VersionedModel] # schema_cache[AcmeModel]

\* ------------------------------------------------------------ OutputHandler
\* (src/util/output_handler.py)  A mime type is the sequence of its parts:
\* <<"image", "png">> is "image/png", <<"application", "json", "charset">> is
\* "application/json; charset=utf-8"; << >> is a mime type that is None or "".
MaxOutputs == 2     \* length of a raw output list

MimeTypes ==
    {<<"image", "png">>, <<"video", "mp4">>, <<"audio", "mpeg">>, <<"text", "plain">>,
     <<"application", "json">>, <<"application", "json", "charset">>, <<"application", "pdf">>, << >>}

\* the elements of a raw output: a FileOutput (read and url; mime is what
\* mimetypes guesses from the url), an http(s) URL string (mime is the
\* content-type header of the response), a data: URI (mime is the one of its
\* header; malformed: it has no comma), any other string, a dict
RawElements ==
    {[kind |-> "file", mime |-> m] : m \in {<<"image", "png">>, << >>}}
    \cup {[kind |-> "url", mime |-> m] : m \in MimeTypes}
    \cup {[kind |-> "data", mime |-> <<"image", "png">>], [kind |-> "malformed_data", mime |-> << >>]}
    \cup {[kind |-> "text", mime |-> << >>], [kind |-> "dict", mime |-> << >>]}

\* the output argument: None, one element, or a list of elements
RawOutputs ==
    {[shape |-> "none", items |-> << >>]}
    \cup {[shape |-> "scalar", items |-> <<e>>] : e \in RawElements}
    \cup {[shape |-> "list", items |-> items] :
            items \in UNION {[1..n -> RawElements] : n \in 0..MaxOutputs}}

\* _determine_output_type
DetermineOutputType(mime_type) ==
    IF mime_type = << >> THEN "unknown"
    ELSE IF mime_type[1] \in {"image", "video", "audio", "text"} THEN mime_type[1]
    ELSE IF mime_type = <<"application", "json">> THEN "json"
    ELSE "file"

\* self.subdirs: OutputType.UNKNOWN is no key of it
Subdirs ==
    [image |-> "images", video |-> "videos", audio |-> "audio", text |-> "text",
     json |-> "json", file |-> "files"]

\* _get_extension_from_mime_type(mime_type) or "bin"
ExtensionOf(mime_type) ==
    IF mime_type = << >> \/ Len(mime_type) > 2 THEN "bin"
    ELSE IF mime_type = <<"text", "plain">> THEN "txt"
    ELSE IF mime_type = <<"audio", "mpeg">> THEN "mp3"
    ELSE mime_type[2]

\* the ProcessedOutput of an element saved as
\* subdirs[output_type] / f"{timestamp}_{generation_id}_{index:03d}.{extension}"
SavedOutput(output_type, data, mime_type, generation_id, index, extension) ==
    [type |-> output_type,
     data |-> data,
     file_path |-> <<HandlerDir, Subdirs[output_type], <<generation_id, index, extension>>>>,
     mime_type |-> mime_type]

\* the index passed for every element is 0
EnumerateIndexZero(position) == 0

\* for i, item in enumerate(output): the index of the element at a position
\* of the list (positions of a sequence start at 1)
EnumerateIndex(position) == position - 1

\* _process_text_output and _process_json_output: no try/except, so a
\* failing open() or write() leaves the method as an exception
ProcessWritten(element, generation_id, index, failed) ==
    IF failed THEN [raised |-> TRUE, processed |-> None]
    ELSE [raised |-> FALSE,
          processed |-> <<IF element.kind = "dict"
                          THEN SavedOutput("json", element, <<"application", "json">>, generation_id, index, "json")
                          ELSE SavedOutput("text", element, <<"text", "plain">>, generation_id, index, "txt")>>]

\* _process_file_output, _process_url_output and _process_data_url_output:
\* everything runs inside try/except Exception, which returns None.  The
\* exception is a failing read, download or write (failed), the split of a
\* data: URI without comma, or the KeyError of self.subdirs[OutputType.UNKNOWN]
ProcessFetched(element, generation_id, index, failed) ==
    LET output_type == DetermineOutputType(element.mime)
    IN  [raised |-> FALSE,
         processed |->
            IF failed \/ element.kind = "malformed_data" \/ output_type \notin DOMAIN Subdirs
            THEN None
            ELSE <<SavedOutput(output_type, element, element.mime, generation_id, index,
                               ExtensionOf(element.mime))>>]

\* _process_single_output
ProcessSingleOutput(element, generation_id, index, failed) ==
    IF element.kind \in {"file", "url", "data", "malformed_data"}
    THEN ProcessFetched(element, generation_id, index, failed)
    ELSE ProcessWritten(element, generation_id, index, failed)

RECURSIVE ProcessItems(_, _, _, _)
\* the first n iterations of "for i, item in enumerate(output)"; fails is the
\* set of positions whose read, download or write raises
ProcessItems(items, generation_id, fails, n) ==
    IF n = 0 THEN [raised |-> FALSE, outputs |-> << >>]
    ELSE LET before == ProcessItems(items, generation_id, fails, n - 1)
             this == ProcessSingleOutput(items[n], generation_id, EnumerateIndex(n), n \in fails)
         IN  IF before.raised \/ this.raised THEN [raised |-> TRUE, outputs |-> << >>]
             ELSE [raised |-> FALSE, outputs |-> before.outputs \o this.processed]

\* process_prediction_output: the returned list, or the exception
process_prediction_output(output, generation_id, fails) ==
    IF output.shape = "none" THEN [raised |-> FALSE, outputs |-> << >>]
    ELSE ProcessItems(output.items, generation_id, fails, Len(output.items))

\* a new OutputHandler and the arguments of the call: the raw output of a
\* prediction, the generation id, and the positions whose read, download or
\* write will raise
HandlerInit ==
    /\ \E output \in RawOutputs, generation_id \in GenIds :
        \E fails \in SUBSET DOMAIN output.items :
            handled = [NoOutput EXCEPT !.op = "call", !.output = output,
                                       !.generation_id = generation_id, !.fails = fails]
    /\ GalleryInit
    /\ reader = NoReader
    /\ NoService
    /\ flow = NoFlow

ProcessPredictionOutput ==
    /\ handled.op = "call"
    /\ LET result == process_prediction_output(handled.output, handled.generation_id, handled.fails)
       IN  handled' = [handled EXCEPT !.op = "process_prediction_output",
                                      !.raised = result.raised, !.outputs = result.outputs]
    /\ UNCHANGED nonHandlerVars

HandlerNext == ProcessPredictionOutput

HandlerSpec == HandlerInit /\ [][HandlerNext]_vars

\* ------------------------------------------------ claims on the output handler
\* the index in the file name of an entry
IndexOf(entry) == entry.file_path[3][2]

\* the element at a position yields an entry when nothing fails for it
YieldsEntry(items, position) ==
    ProcessSingleOutput(items[position], handled.generation_id, EnumerateIndex(position), FALSE).processed # None

EntriesOf(position) ==
    {k \in DOMAIN handled.outputs : IndexOf(handled.outputs[k]) = position - 1}

InIndexOrder(outputs) ==
    \A k \in 1..(Len(outputs) - 1) : IndexOf(outputs[k]) < IndexOf(outputs[k + 1])

\* C18: process_prediction_output on a list never raises and returns at most
\* one entry per element, in the order of the list; every element whose read,
\* download or write does not fail keeps its entry when others fail.
C18_FailureDropsOnlyItsElement ==
    (handled.op = "process_prediction_output" /\ handled.output.shape = "list") =>
        /\ ~handled.raised
        /\ Len(handled.outputs) <= Len(handled.output.items)
        /\ InIndexOrder(handled.outputs)
        /\ \A i \in DOMAIN handled.output.items :
            (i \notin handled.fails /\ YieldsEntry(handled.output.items, i))
                => \E k \in EntriesOf(i) : handled.outputs[k].data = handled.output.items[i]

\* the type the mime type stands for: its first part for image, video, audio
\* and text, json for exactly application/json, file for everything else
ExpectedType(mime_type) ==
    IF mime_type # << >> /\ mime_type[1] \in {"image", "video", "audio", "text"} THEN mime_type[1]
    ELSE IF mime_type = <<"application", "json">> THEN "json"
    ELSE "file"

\* C19: every FileOutput, URL or data: URI element that is read without a
\* failure gets an entry whose type is the one its mime type stands for (file
\* when the mime type is empty or unknown) and whose file is in the
\* subdirectory of that type.
C19_ClassifiedByMimeType ==
    (handled.op = "process_prediction_output" /\ ~handled.raised) =>
        \A i \in DOMAIN handled.output.items :
            (handled.output.items[i].kind \in {"file", "url", "data"} /\ i \notin handled.fails)
                => \E k \in EntriesOf(i) :
                    /\ handled.outputs[k].type = ExpectedType(handled.output.items[i].mime)
                    /\ handled.outputs[k].file_path[2] = Subdirs[handled.outputs[k].type]

DescriptionWords(schema) ==
    IF schema.model_info.description = None THEN << >> ELSE schema.model_info.description[1]

\* the tag the decision order gives: the first step that matches decides
DecisionOrderTag(schema) ==
    LET names == {schema.input_parameters[i].name : i \in DOMAIN schema.input_parameters}
        out == schema.output_definition
        words == schema.model_info.name \o DescriptionWords(schema)
        Has(S) == names \cap S # {}
        Says(S) == \E i \in DOMAIN words : words[i] \in S
    IN  IF out.type = "array" /\ out.items # None
           /\ (DictGet(out.items[1], "format", "") = "uri" \/ StrMentions(out.items[1], "image"))
        THEN "image-generation"
        ELSE IF "prompt" \in names
        THEN (IF Has({"image", "width", "height", "aspect_ratio"}) THEN "image-generation"
              ELSE IF Has({"video", "fps", "duration"}) THEN "video-generation"
              ELSE IF Has({"audio", "duration", "sample_rate"}) THEN "audio-generation"
              ELSE "text-generation")
        ELSE IF "image" \in names THEN "image-processing"
        ELSE IF "video" \in names THEN "video-processing"
        ELSE IF "audio" \in names THEN "audio-processing"
        ELSE IF Says({"image", "picture", "photo", "visual"}) THEN "image-processing"
        ELSE IF Says({"video", "movie", "film"}) THEN "video-processing"
        ELSE IF Says({"audio", "sound", "music", "voice"}) THEN "audio-processing"
        ELSE IF Says({"text", "language", "chat", "instruct"}) THEN "text-generation"
        ELSE "unknown"

\* C21: categorize_model on a model that has a schema returns the tag of the
\* decision order, first match wins: the output shape, then prompt with the
\* image, video and audio names (else text-generation), then image, video,
\* audio without prompt, then the keywords of name and description, and
\* unknown when nothing matches.
C21_FollowsDecisionOrder ==
    (svc.op = "categorize_model" /\ svc.schema # None) =>
        /\ ~svc.result.raised
        /\ svc.result.tag = DecisionOrderTag(svc.schema[1])

\* C22: get_model_schema for "acme/model:v1", when the provider knows the
\* model, the version v1 cannot be resolved and the model has a latest version
\* with a schema, returns a schema read from the latest version and stores it
\* in the cache under "acme/model:v1".
C22_UnresolvedVersionFallsBackToLatest ==
    [][ServiceCall("get_model_schema", VersionedModel, << >>, {"version"})
        => /\ svc'.schema # None
           /\ svc'.schema[1].model_info.current_version_id = "latest"
           /\ svc'.schema[1].model_string = VersionedModel
           /\ VersionedModel \in DOMAIN schema_cache'
           /\ schema_cache'[VersionedModel] = svc'.schema[1]
           /\ DOMAIN schema_cache' = DOMAIN schema_cache \cup {VersionedModel}]_vars

\* get_model_schema("acme/model:v1") has contacted the provider and returned
\* a schema of the latest version, now the cache entry of "acme/model:v1"
C22_Witness ==
    /\ svc.op = "get_model_schema" /\ svc.model_string = VersionedModel
    /\ svc.contacted
    /\ svc.schema # None
    /\ svc.schema[1].model_info.current_version_id = "latest"
    /\ VersionedModel \in DOMAIN schema_cache
    /\ schema_cache[VersionedModel] = svc.schema[1]

\* C23: sync_with_filesystem deletes no file that a row of the store it
\* leaves behind refers to, by the file_path of an output row or the
\* thumbnail_path of a generation, whichever string names the output root.
C23_SyncKeepsReferencedFiles ==
    [][SyncStep => \A f \in disk : Referenced(CurrentDb', f) => f \in disk']_vars

\* ---------------------------------------------------- UniversalReplicateGUI
\* (src/gui/universal_generator.py)  _generate_output is a coroutine on the
\* event loop.  At every "await asyncio.to_thread(...)" the loop is free for
\* other handlers (a second click on Generate, the gallery's Cleanup) until the
\* thread returns; the code between two awaits runs without interruption.  An
\* action below is the return of one thread together with the code up to the
\* next await.

\* the lists process_prediction_output returns for a generation: the files
\* carry the generation id in their names, so each generation has its own
FlowOutputs(generation_id) ==
    IF generation_id = "gen_1"
    THEN {<< >>, <<ProcessedOutput(HandlerDir, ImageFile)>>}
    ELSE {<< >>, <<ProcessedOutput(HandlerDir, TextFile)>>}

\* the files of the first n entries
FilesOf(outputs, n) == {Resolve(outputs[i].file_path) : i \in 1..n}

\* _generate_output without its test of the flag
GenerationGuardOff(in_progress) == FALSE

\* if self.generation_in_progress: notify and return
GenerationGuard(in_progress) == in_progress

\* the finally clause, after the notification of the outcome
Finish(f, message) ==
    [f EXCEPT !.pc = "idle", !.generation_in_progress = FALSE, !.finished = @ + 1,
              !.notify = message]

\* categorize_model and the start of the save_generation thread; an exception
\* of categorize_model ends the coroutine in its except clause
StartSave(f, thumbnail_path, categorize_raises) ==
    IF categorize_raises THEN Finish(f, "Generation failed")
    ELSE [f EXCEPT !.pc = "saving", !.thumbnail_path = thumbnail_path,
                   !.notify = "Saving to database..."]

\* a click on Generate (or a regenerate request): the code of _generate_output
\* up to its first await.  has_model: a model is selected and its schema
\* loaded; is_valid: validate_parameters accepts the values.  The generation
\* id is new at every generation (timestamp and uuid).
GenerateRequest ==
    /\ \/ /\ GenerationGuard(flow.generation_in_progress)
          /\ flow' = [flow EXCEPT !.notify = "Generation already in progress"]
       \/ /\ ~GenerationGuard(flow.generation_in_progress)
          /\ \E has_model \in BOOLEAN, is_valid \in BOOLEAN :
                IF ~has_model
                THEN flow' = [flow EXCEPT !.notify = "Please select a model first"]
                ELSE /\ flow.started < Cardinality(GenIds)
                     /\ IF ~is_valid
                        THEN flow' = [flow EXCEPT !.started = @ + 1, !.finished = @ + 1,
                                                  !.generation_in_progress = FALSE,
                                                  !.notify = "Invalid parameters"]
                        ELSE \E generation_id \in GenIds \ flow.issued :
                                flow' = [flow EXCEPT
                                            !.pc = "invoking",
                                            !.generation_in_progress = TRUE,
                                            !.started = @ + 1,
                                            !.issued = @ \cup {generation_id},
                                            !.last_generation_id = generation_id,
                                            !.outputs = << >>,
                                            !.thumbnail_path = NULL,
                                            !.notify = "Generating..."]
    /\ UNCHANGED <<galleryVars, nonGeneratorVars>>

\* replicate_api.generate_images returns or raises
InvocationReturns ==
    /\ flow.pc = "invoking"
    /\ \E raised \in BOOLEAN :
        flow' = IF raised THEN Finish(flow, "Generation failed")
                ELSE [flow EXCEPT !.pc = "processing", !.notify = "Processing outputs..."]
    /\ UNCHANGED <<galleryVars, nonGeneratorVars>>

\* process_prediction_output returns its entries, the files written, or
\* raises with some of the files written; then the thumbnail thread starts
\* for the first image entry, or the save when there is none
OutputsProcessed ==
    /\ flow.pc = "processing"
    /\ \E outputs \in FlowOutputs(flow.last_generation_id),
          raised \in BOOLEAN, categorize_raises \in BOOLEAN :
        \E written \in 0..Len(outputs) :
            /\ ~raised => written = Len(outputs)
            /\ disk' = disk \cup FilesOf(outputs, written)
            /\ flow' = IF raised THEN Finish(flow, "Generation failed")
                       ELSE IF outputs = << >> THEN Finish(flow, "No outputs generated")
                       ELSE IF \E i \in DOMAIN outputs : outputs[i].type = "image"
                            THEN [flow EXCEPT !.pc = "thumbnail", !.outputs = outputs,
                                              !.notify = "Generating thumbnails..."]
                            ELSE StartSave([flow EXCEPT !.outputs = outputs], NULL, categorize_raises)
    /\ UNCHANGED <<generations, generation_outputs, sqlite_sequence, now, last, nonGeneratorVars>>

\* generate_thumbnail returns the path of the thumbnail it wrote, or None
\* (the image cannot be opened, PIL is missing, the write fails)
ThumbnailGenerated ==
    /\ flow.pc = "thumbnail"
    /\ \E made \in BOOLEAN, categorize_raises \in BOOLEAN :
        LET image == flow.outputs[CHOOSE i \in DOMAIN flow.outputs :
                                    /\ flow.outputs[i].type = "image"
                                    /\ \A j \in 1..(i - 1) : flow.outputs[j].type # "image"]
            thumbnail_path == IF made /\ PathExists(disk, image.file_path)
                              THEN HandlerDir \o ThumbFile ELSE NULL
        IN  /\ disk' = IF thumbnail_path = NULL THEN disk ELSE disk \cup {Resolve(thumbnail_path)}
            /\ flow' = StartSave(flow, thumbnail_path, categorize_raises)
    /\ UNCHANGED <<generations, generation_outputs, sqlite_sequence, now, last, nonGeneratorVars>>

\* save_generation returns true or false
SaveReturns ==
    /\ flow.pc = "saving"
    /\ \E raise_at \in 0..(Len(flow.outputs) + 2) :
        /\ save_generation(flow.last_generation_id, SaveInput(flow.last_generation_id),
                           flow.outputs, flow.thumbnail_path, raise_at)
        /\ flow' = Finish(flow, IF raise_at = 0 THEN "Generated outputs successfully"
                                ELSE "Failed to save generation")
    /\ UNCHANGED nonGeneratorVars

\* UniversalGallery._perform_cleanup: sync_with_filesystem on the resolved
\* output directory, whenever the event loop is free
PerformCleanup ==
    /\ \E raise_at \in {"none", "select", "commit"} :
        \E undeletable \in SUBSET SyncTargets(CurrentDb, disk, AbsRoot, raise_at) :
            sync_with_filesystem(AbsRoot, raise_at, undeletable)
    /\ UNCHANGED <<flow, nonGeneratorVars>>

\* the application after start-up: an empty gallery and an empty output directory
GeneratorInit ==
    /\ generations = {}
    /\ generation_outputs = {}
    /\ sqlite_sequence = 0
    /\ now = 0
    /\ disk = {}
    /\ last = NoCall
    /\ flow = NoFlow
    /\ reader = NoReader
    /\ NoService
    /\ handled = NoOutput

GeneratorNext ==
    \/ GenerateRequest
    \/ InvocationReturns
    \/ OutputsProcessed
    \/ ThumbnailGenerated
    \/ SaveReturns
    \/ PerformCleanup

GeneratorSpec == GeneratorInit /\ [][GeneratorNext]_vars

\* C24: when _generate_output ends with a save_generation that returned true,
\* every output row of the new generation names a file that is on disk,
\* whatever cleanup ran between the writing of the files and the commit.
C24_SavedOutputsAreOnDisk ==
    [][(flow.pc = "saving" /\ flow'.pc = "idle" /\ flow'.notify = "Generated outputs successfully")
        => /\ OutputRowsOf(generation_outputs', flow.last_generation_id) # {}
           /\ \A o \in OutputRowsOf(generation_outputs', flow.last_generation_id) :
                PathExists(disk', o.file_path)]_vars

\* C25: a delete_generation whose database step fails returns false, removes
\* no file and leaves the rows as they were; a delete_generation that removes
\* a file has committed the deletion of the generation row and returns true.
C25_FilesRemovedOnlyAfterCommit ==
    [][DeleteStep =>
        /\ \A generation_id \in GenIds :
            \A undeletable \in SUBSET DeleteTargets(CurrentDb, disk, generation_id) :
                delete_generation(generation_id, TRUE, undeletable)
                    => /\ ~last'.ok
                       /\ disk' = disk
                       /\ CurrentDb' = CurrentDb
        /\ disk' # disk => (last'.ok /\ GenRows(generations', last'.id) = {})
        /\ ~last'.ok => (disk' = disk /\ CurrentDb' = CurrentDb)]_vars

\* a delete_generation has returned false for a generation that has its row,
\* its output rows and its files
C25_Witness ==
    /\ last.op = "delete_generation" /\ ~last.ok
    /\ GenRows(generations, last.id) # {}
    /\ OutputRowsOf(generation_outputs, last.id) # {}
    /\ DeleteTargets(CurrentDb, disk, last.id) # {}

\* C26: after a sync_with_filesystem(output_dir) that committed, a second
\* sync_with_filesystem(output_dir) on the store and the disk it left finds
\* no output row to remove, changes no row, and removes no file (a file whose
\* unlink raised the first time aside, which stays undeletable).
C26_SecondSyncChangesNothing ==
    [][(SyncStep /\ last'.ok) =>
        \A output_dir \in OutputDirs :
            \A undeletable \in SUBSET SyncTargets(CurrentDb, disk, output_dir, "none") :
                sync_with_filesystem(output_dir, "none", undeletable)
                => /\ MissingOutputs(CurrentDb', disk') = {}
                   /\ SyncRows(CurrentDb', disk') = CurrentDb'
                   /\ SyncTargets(CurrentDb', disk', output_dir, "none") \subseteq undeletable]_vars

\* C27: the removed_records that sync_with_filesystem returns is the number
\* of output rows the call removed from the store; a call whose transaction is
\* rolled back returns removed_records = 0 and leaves the store as it was.
C27_RemovedRecordsCountsRemovedRows ==
    [][SyncStep =>
        /\ last'.removed_records = Cardinality(generation_outputs \ generation_outputs')
        /\ ~last'.ok => (last'.removed_records = 0 /\ CurrentDb' = CurrentDb)]_vars

\* C28: validate_input_parameters returns for every schema and every values
\* map a pair (ok, errors) with ok true exactly when errors is empty, and
\* never raises, also when a value that is not a number is given for an
\* integer or number parameter with a minimum or a maximum.
C28_ValidationIsTotal ==
    svc.op = "validate_input_parameters" =>
        /\ ~svc.result.raised
        /\ svc.result.ok = (svc.result.errors = << >>)

\* the eight category tags
CategoryTags ==
    {"image-generation", "video-generation", "audio-generation", "text-generation",
     "image-processing", "video-processing", "audio-processing", "unknown"}

\* C29: categorize_model returns one of the eight category tags and never
\* raises, for every schema the translation produces, a model without a
\* description included, and the tag is a function of the schema.
C29_CategorizationIsTotal ==
    svc.op = "categorize_model" =>
        /\ ~svc.result.raised
        /\ svc.result.tag \in CategoryTags
        /\ svc.result = CategorizeSchema(svc.schema)

\* the threads that _generate_output awaits return or raise in the end, and
\* the coroutine is resumed when they do
GeneratorFairSpec ==
    /\ GeneratorInit
    /\ [][GeneratorNext]_vars
    /\ WF_vars(InvocationReturns)
    /\ WF_vars(OutputsProcessed)
    /\ WF_vars(ThumbnailGenerated)
    /\ WF_vars(SaveReturns)

\* generations started and not finished
InProgress == flow.started - flow.finished

\* C30: at most one generation is in progress, the flag being true exactly
\* while one is; a request made while the flag is true starts nothing (no new
\* generation id, no invocation, no file, no row); and a generation in progress
\* always ends with the flag false again, whatever its outcome.
C30_OneGenerationAtATime ==
    /\ [](/\ InProgress \in {0, 1}
          /\ flow.generation_in_progress = (InProgress = 1)
          /\ flow.generation_in_progress = (flow.pc # "idle"))
    /\ [][(flow.generation_in_progress /\ flow'.notify = "Generation already in progress"
                /\ flow' # flow)
            => /\ flow' = [flow EXCEPT !.notify = "Generation already in progress"]
               /\ disk' = disk
               /\ CurrentDb' = CurrentDb]_vars
    /\ [][flow.generation_in_progress
            => (flow'.started = flow.started /\ flow'.issued = flow.issued)]_vars
    /\ (flow.generation_in_progress ~> ~flow.generation_in_progress)

\* a request has been turned away while the second generation was in progress,
\* the first having ended
C30_Witness ==
    /\ flow.generation_in_progress
    /\ flow.notify = "Generation already in progress"
    /\ flow.started = 2 /\ flow.finished = 1
    /\ flow.pc = "saving"

====
